---- MODULE Spec2Model ----
(***************************************************************************)
(* Model of uptimemonitoringbot.js: the monitoring cycle                   *)
(* (doMonitoringCycle), its scheduling by the "ready" handler and          *)
(* setInterval, the per-website alerting on state changes, and the TCP and *)
(* UDP port probes.  One action is one run of the JavaScript event loop    *)
(* between two suspension points (await / socket event / timer).           *)
(***************************************************************************)
EXTENDS Integers, Sequences, FiniteSets, TLC

\* Number of invocations of doMonitoringCycle that are modelled.
MaxCycles == 3

Cycles == 1..MaxCycles

\* result.state of checkWebsite
WebsiteStates == {"ok", "tls_error", "down"}

\* lastWebsiteStates[key] of a key that was never stored
Undefined == "undefined"

\* statusMessage = null
Null == -1

\* CONFIG.websites: two websites without id, the second over plain HTTP
WebsiteConfigs ==
  { << [id |-> "", url |-> "https://a"], [id |-> "", url |-> "Http://b"] >> }

\* URLs that checkWebsite is applied to on its own
ProbedUrls ==
  { "https://a", "HTTPS://a", "http://a", "HTTP://a", "Http://b", "hTTp://b",
    "http:/a", "ws://a" }

\* CONFIG.websites: the same two websites, both with the id "x"
SharedIdConfigs ==
  { << [id |-> "x", url |-> "https://a"], [id |-> "x", url |-> "Http://b"] >> }

\* res.status of a response
Statuses == {100, 199, 200, 204, 301, 399, 400, 404, 500}

\* err.code and err.name of a rejected fetch ("" is undefined)
FetchErrors ==
  { [code |-> "CERT_HAS_EXPIRED", name |-> "FetchError"],
    [code |-> "UNABLE_TO_VERIFY_LEAF_SIGNATURE", name |-> "FetchError"],
    [code |-> "DEPTH_ZERO_SELF_SIGNED_CERT", name |-> "FetchError"],
    [code |-> "ECONNREFUSED", name |-> "FetchError"],
    [code |-> "", name |-> "AbortError"] }

\* how await fetch(url, ...) settles: a response or a rejection
FetchOutcomes ==
  {[kind |-> "response", status |-> st, code |-> "", name |-> ""] :
     st \in Statuses}
  \cup {[kind |-> "error", status |-> 0, code |-> e.code, name |-> e.name] :
          e \in FetchErrors}

NoFetch == [kind |-> "none", status |-> 0, code |-> "", name |-> ""]

\* no call of checkWebsite on its own has been made
NoChecked == [url |-> "", fetch |-> NoFetch, state |-> "none"]

\* CONFIG.ports: protocol absent (tcp), udp in upper case, unknown protocol
PORTS == << [protocol |-> ""], [protocol |-> "UDP"], [protocol |-> "icmp"] >>

\* CONFIG.checkIntervalMs (0 is absent)
checkIntervalMs == 1500

\* const CHECK_INTERVAL_MS = CONFIG.checkIntervalMs || 600000
CHECK_INTERVAL_MS == IF checkIntervalMs = 0 THEN 600000 ELSE checkIntervalMs

Sites(w) == 1..Len(w)
Ports == 1..Len(PORTS)

VARIABLES
  WEBSITES,           \* CONFIG.websites
  started,            \* number of doMonitoringCycle invocations so far
  intervalArmed,      \* setInterval(doMonitoringCycle, ...) has been called
  ownerUser,          \* TRUE iff ownerUser is set (not null)
  statusMessage,      \* Null, 0 (greeting of "ready") or c (sent by cycle c)
  lastWebsiteStates,  \* function from the stored keys to their state
  pc,                 \* per invocation: the await it is suspended at
  idx,                \* per invocation: index of the website / port in work
  cur,                \* per invocation: result.state, prevState, alert running
  hist,               \* per invocation: what its latest website step read and invoked
  tcp,                \* per invocation and port: sockets of checkTcpPort
  udp,                \* per invocation and port: closure of checkUdpPort
  lines,              \* per invocation: the array lines, one record per pushed line
  reportStep,         \* the latest step of a report: invocation, handle before, what settled
  checked             \* checkWebsite on its own: cfg.url, how fetch settled, result.state

vars == << WEBSITES, started, intervalArmed, ownerUser, statusMessage,
           lastWebsiteStates, pc, idx, cur, hist, tcp, udp, lines, reportStep,
           checked >>

------------------------------------------------------------------------------
\* Helpers

\* `${index}` for the indices in use
IndexString(n) == ToString(n)

\* getWebsiteKey(cfg, index): cfg.id || `${index}:${cfg.url}`
getWebsiteKey(cfg, index) ==
  IF cfg.id # "" THEN cfg.id ELSE IndexString(index) \o ":" \o cfg.url

\* key of the i-th website (JavaScript index i - 1)
KeyOf(i) == getWebsiteKey(WEBSITES[i], i - 1)

\* lastWebsiteStates[key]
StoredState(key) ==
  IF key \in DOMAIN lastWebsiteStates THEN lastWebsiteStates[key] ELSE Undefined

PrevStateDefaultDown(stored) == IF stored = Undefined THEN "down" ELSE stored

\* const prevState = lastWebsiteStates[key] || "ok"
PrevStateOf(stored) == IF stored = Undefined THEN "ok" ELSE stored

IsNewProblemAnyNonOk(state, prevState) == state # "ok"

\* result.state !== "ok" && result.state !== prevState
IsNewProblem(state, prevState) == state # "ok" /\ state # prevState

IsRecoveryAnyOk(state, prevState) == state = "ok"

\* result.state === "ok" && prevState !== "ok"
IsRecovery(state, prevState) == state = "ok" /\ prevState # "ok"

\* the lower-case form of one character
LowerChar(ch) ==
  LET up == "ABCDEFGHIJKLMNOPQRSTUVWXYZ"
      lo == "abcdefghijklmnopqrstuvwxyz"
      at == {k \in 1..26 : SubSeq(up, k, k) = ch}
  IN IF at = {} THEN ch ELSE LET k == CHOOSE k \in at : TRUE IN SubSeq(lo, k, k)

\* String.prototype.toLowerCase
RECURSIVE toLowerCase(_)
toLowerCase(s) ==
  IF Len(s) = 0 THEN s
  ELSE LowerChar(SubSeq(s, 1, 1)) \o toLowerCase(SubSeq(s, 2, Len(s)))

\* the strings that are put to lower case: protocols and URLs of the
\* configuration
LowerCased ==
  {"tcp"} \cup {PORTS[j].protocol : j \in DOMAIN PORTS}
  \cup UNION {{w[i].url : i \in DOMAIN w} : w \in WebsiteConfigs}
  \cup ProbedUrls

\* toLowerCase of these strings, computed once
lowerCase == [s \in LowerCased |-> toLowerCase(s)]

\* String.prototype.startsWith
startsWith(s, prefix) ==
  Len(s) >= Len(prefix) /\ SubSeq(s, 1, Len(prefix)) = prefix

IsSuccessStatusUpTo400(status) == status >= 200 /\ status <= 400

\* status >= 200 && status < 400
IsSuccessStatus(status) == status >= 200 /\ status < 400

\* err.code && (err.code.startsWith("CERT_") || ... )
IsCertError(code) ==
  /\ code # ""
  /\ \/ startsWith(code, "CERT_")
     \/ code = "UNABLE_TO_VERIFY_LEAF_SIGNATURE"
     \/ code = "DEPTH_ZERO_SELF_SIGNED_CERT"

\* checkWebsite(cfg): result.state for the way fetch settled
checkWebsite(cfg, o) ==
  IF o.kind = "response"
    THEN IF startsWith(lowerCase[cfg.url], "http://")
           THEN (IF IsSuccessStatus(o.status) THEN "down" ELSE "down")
           ELSE (IF IsSuccessStatus(o.status) THEN "ok" ELSE "down")
    ELSE IF IsCertError(o.code) THEN "tls_error"
         ELSE IF o.name = "AbortError" THEN "down"
         ELSE "down"

\* the values result.state can take for cfg
ResultStates(cfg) == {checkWebsite(cfg, o) : o \in FetchOutcomes}

\* const proto = (cfg.protocol || "tcp").toLowerCase()
Proto(cfg) == lowerCase[IF cfg.protocol = "" THEN "tcp" ELSE cfg.protocol]

------------------------------------------------------------------------------
\* checkTcpPort: the sockets of one probe, in the order attempt() made them,
\* and the values resolve() was called with

NoTcp == [socks |-> << >>, resolved |-> << >>]

TcpListeners == {"error", "connect", "timeout"}

\* attempt(tryNumber): new net.Socket(), three once-listeners, connect
attempt(p, tryNumber) ==
  [p EXCEPT !.socks = Append(@, [tryNumber |-> tryNumber,
                                 destroyed |-> FALSE,
                                 listeners |-> TcpListeners,
                                 ended     |-> "none"])]

cleanupKeepsSocket(p, s) == [p EXCEPT !.socks[s].listeners = {}]

\* cleanup(): remove the three listeners, socket.destroy()
cleanup(p, s) ==
  [p EXCEPT !.socks[s].listeners = {}, !.socks[s].destroyed = TRUE]

\* resolve(msg) of the probe's promise
resolve(p, msg) == [p EXCEPT !.resolved = Append(@, msg)]

\* onError: cleanup, resolve "nicht erreichbar"
onError(p, s) == resolve(cleanup(p, s), "error")

\* onConnect: cleanup, resolve "erreichbar"
onConnect(p, s) == resolve(cleanup(p, s), "ok")

ShouldRetryAlways(tryNumber) == TRUE

ShouldRetryOnSecond(tryNumber) == tryNumber = 2

\* if (tryNumber === 1)
ShouldRetry(tryNumber) == tryNumber = 1

\* onTimeout: cleanup, then one retry or resolve "Timeout ... (nach Retry)"
onTimeout(p, s) ==
  LET q == cleanup(p, s) IN
    IF ShouldRetry(q.socks[s].tryNumber)
      THEN attempt(q, 2)
      ELSE resolve(q, "timeout_after_retry")

\* the event ev is emitted on socket s: the once-listener is taken off and run
Emit(p, s, ev) ==
  LET q == [p EXCEPT !.socks[s].listeners = @ \ {ev},
                     !.socks[s].ended = IF ev = "connect" THEN "connected"
                                        ELSE ev]
  IN CASE ev = "error"   -> onError(q, s)
       [] ev = "connect" -> onConnect(q, s)
       [] ev = "timeout" -> onTimeout(q, s)

\* a probe whose sockets are all destroyed has nothing left that can happen
TcpDead(p) == \A s \in DOMAIN p.socks : p.socks[s].destroyed

------------------------------------------------------------------------------
\* checkUdpPort: the closure of one probe

NoUdp == [created |-> FALSE, finished |-> FALSE, closes |-> 0,
          resolved |-> << >>, sendCb |-> "none", timer |-> "none"]

\* dgram.createSocket, socket.on("error"), socket.send(..., callback)
NewUdp == [NoUdp EXCEPT !.created = TRUE, !.sendCb = "pending"]

doneUnguarded(u, msg) ==
  [u EXCEPT !.finished = TRUE, !.closes = @ + 1, !.resolved = Append(@, msg)]

\* done(msg): if (!finished) { finished = true; socket.close(); resolve(msg) }
done(u, msg) ==
  IF ~u.finished
    THEN [u EXCEPT !.finished = TRUE, !.closes = @ + 1,
                   !.resolved = Append(@, msg)]
    ELSE u

sendCallbackIgnoresError(u, err) ==
  [u EXCEPT !.sendCb = IF err THEN "failed" ELSE "sent", !.timer = "armed"]

\* (err) => { if (err) return done("Fehler beim Senden"); setTimeout(...) }
sendCallback(u, err) ==
  IF err
    THEN done([u EXCEPT !.sendCb = "failed"], "send_error")
    ELSE [u EXCEPT !.sendCb = "sent", !.timer = "armed"]

\* the timer's callback: done("Paket gesendet, keine Antwort")
timerCallback(u) == done([u EXCEPT !.timer = "fired"], "no_response")

\* nothing of the probe is pending any more
UdpDead(u) == u.sendCb # "pending" /\ u.timer # "armed"

------------------------------------------------------------------------------
\* doMonitoringCycle: where an invocation suspends next

\* first port at or after j whose protocol is probed (tcp or udp); the
\* unknown-protocol branch only builds a line and does not suspend
RECURSIVE NextProbe(_)
NextProbe(j) ==
  IF j > Len(PORTS) THEN j
  ELSE IF Proto(PORTS[j]) \in {"tcp", "udp"} THEN j
  ELSE NextProbe(j + 1)

\* one element of lines: what the line is, and the website, the port or the
\* number of seconds it shows
Line(kind, n) == [kind |-> kind, n |-> n]

FloorSeconds(ms) == ms \div 1000

\* Math.round(ms / 1000)
RoundSeconds(ms) == (ms + 500) \div 1000

\* the two lines after the sections: next check in ... seconds, last check at
Footer ==
  << Line("countdown", RoundSeconds(CHECK_INTERVAL_MS)), Line("timestamp", 0) >>

\* lines.push(`- ${res}`) for port j: the result of its probe, or
\* "unbekanntes Protokoll"
PortLine(j) ==
  Line(IF Proto(PORTS[j]) \in {"tcp", "udp"} THEN "port"
       ELSE "unknownProtocol", j)

RECURSIVE PortLinesSkipUnknown(_)
PortLinesSkipUnknown(j) ==
  IF j > Len(PORTS) THEN << Line("blank", 0) >> \o Footer
  ELSE IF Proto(PORTS[j]) \in {"tcp", "udp"} THEN << >>
  ELSE PortLinesSkipUnknown(j + 1)

\* the lines pushed from port j on until the invocation suspends: nothing
\* before the probe of a tcp or udp port; the line of an unknown protocol;
\* after the last port the blank line and the footer
RECURSIVE PortLines(_)
PortLines(j) ==
  IF j > Len(PORTS) THEN << Line("blank", 0) >> \o Footer
  ELSE IF Proto(PORTS[j]) \in {"tcp", "udp"} THEN << >>
  ELSE << PortLine(j) >> \o PortLines(j + 1)

\* if (PORTS.length > 0) { header; the ports; blank }, then the footer
PortSection ==
  IF Len(PORTS) > 0 THEN << Line("portHeader", 0) >> \o PortLines(1)
  ELSE Footer

\* the lines pushed after the state of website i was stored
LinesAfterWebsite(w, i) ==
  IF i < Len(w) THEN << >> ELSE << Line("blank", 0) >> \o PortSection

\* const lines = []; if (WEBSITES.length > 0) lines.push(header)
FirstLines(w) ==
  IF Len(w) > 0 THEN << Line("websiteHeader", 0) >> ELSE PortSection

\* the lines pushed when the probe of port j has resolved
LinesAfterProbe(j) == << PortLine(j) >> \o PortLines(j + 1)

\* if (!statusMessage) { if (!ownerUser) fetch; send } else { edit }
ReportStage(sm, ou) ==
  [pc  |-> IF sm = Null
             THEN (IF ~ou THEN "reportFetch" ELSE "reportSend")
             ELSE "reportEdit",
   idx |-> 0]

\* for (const cfg of PORTS), from port j on
PortStage(j, sm, ou) ==
  LET n == NextProbe(j) IN
    IF n > Len(PORTS) THEN ReportStage(sm, ou)
    ELSE [pc  |-> IF Proto(PORTS[n]) = "tcp" THEN "checkTcp" ELSE "checkUdp",
          idx |-> n]

WebsiteStageOnlyFirst(i, sm, ou) ==
  IF i <= 1 THEN [pc |-> "checkWebsite", idx |-> i]
  ELSE PortStage(1, sm, ou)

\* for (let i = 0; i < WEBSITES.length; i++), from website i on
WebsiteStage(i, sm, ou) ==
  IF i <= Len(WEBSITES) THEN [pc |-> "checkWebsite", idx |-> i]
  ELSE PortStage(1, sm, ou)

\* Records of an invocation c that nothing can reach any more (a probe whose
\* sockets are destroyed, a resolved UDP closure without pending callback) are
\* dropped the next time c runs; the record of port `keep` stays.
SweepTcp(t, c, keep) ==
  [t EXCEPT ![c] = [j \in Ports |->
     IF j # keep /\ TcpDead(t[c][j]) THEN NoTcp ELSE t[c][j]]]

SweepUdp(u, c, keep) ==
  [u EXCEPT ![c] = [j \in Ports |->
     IF j # keep /\ u[c][j].finished /\ UdpDead(u[c][j])
       THEN NoUdp ELSE u[c][j]]]

\* invocation c runs on to stage st and suspends there; tcpBase and udpBase
\* are the probe closures before the probe of st (if any) is started
Enter(c, st, tcpBase, udpBase) ==
  /\ pc' = [pc EXCEPT ![c] = st.pc]
  /\ idx' = [idx EXCEPT ![c] = st.idx]
  /\ tcp' = IF st.pc = "checkTcp"
              THEN [tcpBase EXCEPT ![c][st.idx] = attempt(NoTcp, 1)]
              ELSE tcpBase
  /\ udp' = IF st.pc = "checkUdp"
              THEN [udpBase EXCEPT ![c][st.idx] = NewUdp]
              ELSE udpBase

\* invocation c stays inside the report and suspends at the next await
Stay(c, stage) ==
  /\ pc' = [pc EXCEPT ![c] = stage]
  /\ tcp' = SweepTcp(tcp, c, 0)
  /\ udp' = SweepUdp(udp, c, 0)
  /\ UNCHANGED << idx, intervalArmed, lines >>

\* the positions of an invocation that has returned: "done" from the end of
\* the try block, "caught" from the catch block
Returned == {"done", "caught"}

armedAfterOnlyIfDone(armed, c, how) == armed \/ (c = 1 /\ how = "done")

\* "ready": await doMonitoringCycle(); setInterval(doMonitoringCycle, ...):
\* the promise of the first invocation resolves however it returned
armedAfter(armed, c, how) == armed \/ c = 1

\* the invocation returns (normally or through its catch).  All its UDP
\* probes have resolved: a callback of theirs that is still to come calls
\* done with finished = true, and is not followed any further.
Finish(c, how) ==
  /\ pc' = [pc EXCEPT ![c] = how]
  /\ idx' = [idx EXCEPT ![c] = 0]
  /\ tcp' = SweepTcp(tcp, c, 0)
  /\ udp' = [udp EXCEPT ![c] = [j \in Ports |-> NoUdp]]
  /\ lines' = [lines EXCEPT ![c] = << >>]
  \* "ready": await doMonitoringCycle(); setInterval(doMonitoringCycle, ...)
  /\ intervalArmed' = armedAfter(intervalArmed, c, how)

\* no step of a report since the last call of doMonitoringCycle
NoReportStep == [cycle |-> 0, before |-> Null, did |-> "none"]

\* a step of the report of invocation c: what settled, and the handle before
ReportStep(c, did) == [cycle |-> c, before |-> statusMessage, did |-> did]

handleAfterSendNullOnFailure(sm, c, ok) == IF ok THEN c ELSE Null

\* statusMessage = await ownerUser.send(content): assigned unless it rejects
handleAfterSend(sm, c, ok) == IF ok THEN c ELSE sm

NoCur == [state |-> "none", prevState |-> "none", alert |-> "none",
          title |-> "none"]

NoHist == [site |-> 0, state |-> "none", stored |-> "none",
           problem |-> 0, recovery |-> 0, failed |-> FALSE]

\* invocations that have started and not returned
InProgress == {c \in Cycles : pc[c] \notin {"idle"} \cup Returned}

------------------------------------------------------------------------------
InitWith(configs) ==
  /\ WEBSITES \in configs
  /\ started = 0
  /\ intervalArmed = FALSE
  /\ ownerUser = FALSE
  /\ statusMessage = Null
  /\ lastWebsiteStates = [k \in {} |-> "ok"]
  /\ pc = [c \in Cycles |-> "idle"]
  /\ idx = [c \in Cycles |-> 0]
  /\ cur = [c \in Cycles |-> NoCur]
  /\ hist = [c \in Cycles |-> NoHist]
  /\ tcp = [c \in Cycles |-> [j \in Ports |-> NoTcp]]
  /\ udp = [c \in Cycles |-> [j \in Ports |-> NoUdp]]
  /\ lines = [c \in Cycles |-> << >>]
  /\ reportStep = NoReportStep
  /\ checked = NoChecked

\* the state after the module was loaded
Init == InitWith(WebsiteConfigs)

\* client.on("ready"): fetch the owner, greet, then the first cycle starts
Ready(fetchOk, sendOk) ==
  /\ started = 0
  /\ started' = 1
  /\ ownerUser' = fetchOk
  /\ statusMessage' = IF fetchOk /\ sendOk THEN 0 ELSE Null
  /\ Enter(1, WebsiteStage(1, statusMessage', ownerUser'), tcp, udp)
  /\ lines' = [lines EXCEPT ![1] = FirstLines(WEBSITES)]
  /\ UNCHANGED << WEBSITES, intervalArmed, lastWebsiteStates, cur, hist,
                  reportStep >>

\* the interval timer fires: doMonitoringCycle is called once more, whatever
\* the previous invocation is doing.  An invocation is taken to return before
\* the second tick after its start, so two successive invocations overlap.
IntervalTick ==
  /\ intervalArmed
  /\ started < MaxCycles
  /\ (IF started = 1 THEN TRUE ELSE pc[started - 1] \in Returned)
  /\ started' = started + 1
  /\ Enter(started + 1, WebsiteStage(1, statusMessage, ownerUser), tcp, udp)
  /\ lines' = [lines EXCEPT ![started + 1] = FirstLines(WEBSITES)]
  /\ reportStep' = NoReportStep
  /\ UNCHANGED << WEBSITES, intervalArmed, ownerUser, statusMessage,
                  lastWebsiteStates, cur, hist >>

\* the alert routine is entered: without owner it fetches, else it sends
AlertStage(ou) == IF ~ou THEN "alertFetch" ELSE "alertSend"

problemTitleSwapped(state) ==
  IF state = "tls_error" THEN "Seite nicht erreichbar / Fehler"
  ELSE IF state = "down" THEN "SSL / Zertifikatsproblem"
  ELSE "Info"

\* sendWebsiteProblemAlert: let title, chosen by result.state
problemTitle(state) ==
  IF state = "tls_error" THEN "SSL / Zertifikatsproblem"
  ELSE IF state = "down" THEN "Seite nicht erreichbar / Fehler"
  ELSE "Info"

\* the first line of the text of an alert
AlertTitle(alert, state) ==
  IF alert = "problem" THEN problemTitle(state) ELSE "Recovery"

\* the text is built once the owner is there, before the send
TitleAt(stage, alert, state) ==
  IF stage = "alertSend" THEN AlertTitle(alert, state) ELSE "none"

\* lastWebsiteStates[key] = result.state, then the loop goes on; pushed are
\* the lines that invocation c has pushed before
StoreAndGoOn(c, state, pushed) ==
  /\ lastWebsiteStates' = (KeyOf(idx[c]) :> state) @@ lastWebsiteStates
  /\ lines' = [lines EXCEPT ![c] = pushed \o LinesAfterWebsite(WEBSITES, idx[c])]
  /\ cur' = [cur EXCEPT ![c] = NoCur]
  /\ Enter(c, WebsiteStage(idx[c] + 1, statusMessage, ownerUser'), tcp, udp)

\* await checkWebsite(cfg) returns result.state = state: the previous state
\* is read and compared, and either an alert starts or the state is stored
WebsiteChecked(c, state) ==
  /\ pc[c] = "checkWebsite"
  /\ state \in ResultStates(WEBSITES[idx[c]])
  /\ LET i         == idx[c]
         stored    == StoredState(KeyOf(i))
         prevState == PrevStateOf(stored)
         problem   == IsNewProblem(state, prevState)
         recovery  == ~problem /\ IsRecovery(state, prevState)
     IN /\ hist' = [hist EXCEPT ![c] =
                      [site |-> i, state |-> state, stored |-> stored,
                       problem |-> IF problem THEN 1 ELSE 0,
                       recovery |-> IF recovery THEN 1 ELSE 0,
                       failed |-> FALSE]]
        /\ UNCHANGED ownerUser
        /\ IF problem \/ recovery
             THEN /\ cur' = [cur EXCEPT ![c] =
                               [state |-> state, prevState |-> prevState,
                                alert |-> IF problem THEN "problem"
                                          ELSE "recovery",
                                title |-> TitleAt(AlertStage(ownerUser),
                                                  IF problem THEN "problem"
                                                  ELSE "recovery", state)]]
                  /\ pc' = [pc EXCEPT ![c] = AlertStage(ownerUser)]
                  /\ lines' = [lines EXCEPT ![c] = Append(@, Line("website", i))]
                  /\ UNCHANGED << idx, tcp, udp, lastWebsiteStates >>
             ELSE StoreAndGoOn(c, state, Append(lines[c], Line("website", i)))
  /\ UNCHANGED << WEBSITES, started, intervalArmed, statusMessage,
                  reportStep >>

\* an alert routine returns to doMonitoringCycle, having failed or not (it
\* returns nothing and does not throw): after the problem alert the recovery
\* condition is tested, then the state is stored
AlertReturn(c, failed) ==
  LET k == cur[c] IN
    IF k.alert = "problem" /\ IsRecovery(k.state, k.prevState)
      THEN /\ hist' = [hist EXCEPT ![c].recovery = @ + 1,
                                   ![c].failed = @ \/ failed]
           /\ cur' = [cur EXCEPT ![c].alert = "recovery",
                                 ![c].title = TitleAt(AlertStage(ownerUser'),
                                                      "recovery", k.state)]
           /\ pc' = [pc EXCEPT ![c] = AlertStage(ownerUser')]
           /\ UNCHANGED << idx, tcp, udp, lastWebsiteStates, lines >>
      ELSE /\ StoreAndGoOn(c, k.state, lines[c])
           /\ hist' = [hist EXCEPT ![c].failed = @ \/ failed]

\* sendWebsite...Alert: client.users.fetch(OWNER_ID) settles
AlertFetched(c, ok) ==
  /\ pc[c] = "alertFetch"
  /\ IF ok
       THEN /\ ownerUser' = TRUE
            /\ pc' = [pc EXCEPT ![c] = "alertSend"]
            /\ cur' = [cur EXCEPT ![c].title =
                        TitleAt("alertSend", cur[c].alert, cur[c].state)]
            /\ UNCHANGED << idx, tcp, udp, lastWebsiteStates, hist, lines >>
       ELSE /\ UNCHANGED ownerUser
            /\ AlertReturn(c, TRUE)
  /\ UNCHANGED << WEBSITES, started, intervalArmed, statusMessage,
                  reportStep >>

\* sendWebsite...Alert: ownerUser.send(text) settles (a rejection is logged)
AlertSent(c, ok) ==
  /\ pc[c] = "alertSend"
  /\ UNCHANGED ownerUser
  /\ AlertReturn(c, ~ok)
  /\ UNCHANGED << WEBSITES, started, intervalArmed, statusMessage,
                  reportStep >>

\* a socket of checkTcpPort emits connect, error or timeout
TcpEvent(c, j, s, ev) ==
  /\ s \in DOMAIN tcp[c][j].socks
  /\ ~tcp[c][j].socks[s].destroyed
  /\ ev \in tcp[c][j].socks[s].listeners
  /\ LET p == tcp[c][j]
         q == Emit(p, s, ev)
         t == SweepTcp([tcp EXCEPT ![c][j] = q], c, j)
         u == SweepUdp(udp, c, 0)
     IN IF Len(p.resolved) = 0 /\ Len(q.resolved) > 0
           /\ pc[c] = "checkTcp" /\ idx[c] = j
          THEN /\ Enter(c, PortStage(j + 1, statusMessage, ownerUser), t, u)
               /\ lines' = [lines EXCEPT ![c] = @ \o LinesAfterProbe(j)]
          ELSE /\ tcp' = t
               /\ udp' = u
               /\ UNCHANGED << pc, idx, lines >>
  /\ hist' = [hist EXCEPT ![c] = NoHist]
  /\ UNCHANGED << WEBSITES, started, intervalArmed, ownerUser, statusMessage,
                  lastWebsiteStates, cur, reportStep >>

\* some socket of the TCP probe of port j emits some event
TcpEvents(c, j) ==
  \E s \in DOMAIN tcp[c][j].socks, ev \in TcpListeners : TcpEvent(c, j, s, ev)

\* the closure of the UDP probe of port j becomes v: the first resolve lets
\* the awaiting invocation go on
UdpStep(c, j, v) ==
  /\ LET t == SweepTcp(tcp, c, 0)
         u == SweepUdp([udp EXCEPT ![c][j] = v], c, j)
     IN IF Len(udp[c][j].resolved) = 0 /\ Len(v.resolved) > 0
           /\ pc[c] = "checkUdp" /\ idx[c] = j
          THEN /\ Enter(c, PortStage(j + 1, statusMessage, ownerUser), t, u)
               /\ lines' = [lines EXCEPT ![c] = @ \o LinesAfterProbe(j)]
          ELSE /\ tcp' = t
               /\ udp' = u
               /\ UNCHANGED << pc, idx, lines >>
  /\ hist' = [hist EXCEPT ![c] = NoHist]
  /\ UNCHANGED << WEBSITES, started, intervalArmed, ownerUser, statusMessage,
                  lastWebsiteStates, cur, reportStep >>

\* socket.on("error", ...)
UdpError(c, j) ==
  /\ udp[c][j].created
  /\ UdpStep(c, j, done(udp[c][j], "error"))

\* the callback of socket.send: an error resolves, else the timer is set
UdpSendCallback(c, j, err) ==
  /\ udp[c][j].sendCb = "pending"
  /\ UdpStep(c, j, sendCallback(udp[c][j], err))

\* setTimeout(..., timeoutMs) of checkUdpPort fires
UdpTimeout(c, j) ==
  /\ udp[c][j].timer = "armed"
  /\ UdpStep(c, j, timerCallback(udp[c][j]))

\* report: client.users.fetch(OWNER_ID) settles; a rejection ends the cycle
ReportFetched(c, ok) ==
  /\ pc[c] = "reportFetch"
  /\ IF ok
       THEN /\ ownerUser' = TRUE
            /\ Stay(c, "reportSend")
       ELSE /\ UNCHANGED ownerUser
            /\ Finish(c, "caught")
  /\ reportStep' = ReportStep(c, IF ok THEN "fetch_ok" ELSE "fetch_failed")
  /\ hist' = [hist EXCEPT ![c] = NoHist]
  /\ UNCHANGED << WEBSITES, started, statusMessage, lastWebsiteStates, cur >>

\* report: statusMessage = await ownerUser.send(content)
ReportSent(c, ok) ==
  /\ pc[c] = "reportSend"
  /\ statusMessage' = handleAfterSend(statusMessage, c, ok)
  /\ Finish(c, IF ok THEN "done" ELSE "caught")
  /\ reportStep' = ReportStep(c, IF ok THEN "send_ok" ELSE "send_failed")
  /\ hist' = [hist EXCEPT ![c] = NoHist]
  /\ UNCHANGED << WEBSITES, started, ownerUser, lastWebsiteStates, cur >>

\* report: await statusMessage.edit(content); on rejection a new one is sent
ReportEdited(c, ok) ==
  /\ pc[c] = "reportEdit"
  /\ IF ok
       THEN Finish(c, "done")
       ELSE Stay(c, IF ~ownerUser THEN "reportFetch" ELSE "reportSend")
  /\ reportStep' = ReportStep(c, IF ok THEN "edit_ok" ELSE "edit_failed")
  /\ hist' = [hist EXCEPT ![c] = NoHist]
  /\ UNCHANGED << WEBSITES, started, ownerUser, statusMessage,
                  lastWebsiteStates, cur >>

Cycle ==
  \/ \E fetchOk \in BOOLEAN, sendOk \in BOOLEAN : Ready(fetchOk, sendOk)
  \/ IntervalTick
  \/ \E c \in Cycles, state \in WebsiteStates : WebsiteChecked(c, state)
  \/ \E c \in Cycles, ok \in BOOLEAN : AlertFetched(c, ok)
  \/ \E c \in Cycles, ok \in BOOLEAN : AlertSent(c, ok)
  \/ \E c \in Cycles, j \in Ports : TcpEvents(c, j)
  \/ \E c \in Cycles, j \in Ports : UdpError(c, j)
  \/ \E c \in Cycles, j \in Ports, err \in BOOLEAN : UdpSendCallback(c, j, err)
  \/ \E c \in Cycles, j \in Ports : UdpTimeout(c, j)
  \/ \E c \in Cycles, ok \in BOOLEAN : ReportFetched(c, ok)
  \/ \E c \in Cycles, ok \in BOOLEAN : ReportSent(c, ok)
  \/ \E c \in Cycles, ok \in BOOLEAN : ReportEdited(c, ok)

\* the bot: "checked" belongs to the specification of checkWebsite below
Next == Cycle /\ UNCHANGED checked

Spec == Init /\ [][Next]_vars

\* some callback of invocation c runs: an await of c settles, or a socket or
\* timer of one of its probes fires
Settles(c) ==
  \/ \E state \in WebsiteStates : WebsiteChecked(c, state)
  \/ \E ok \in BOOLEAN : AlertFetched(c, ok)
  \/ \E ok \in BOOLEAN : AlertSent(c, ok)
  \/ \E j \in Ports : TcpEvents(c, j)
  \/ \E j \in Ports : UdpError(c, j)
  \/ \E j \in Ports, err \in BOOLEAN : UdpSendCallback(c, j, err)
  \/ \E j \in Ports : UdpTimeout(c, j)
  \/ \E ok \in BOOLEAN : ReportFetched(c, ok)
  \/ \E ok \in BOOLEAN : ReportSent(c, ok)
  \/ \E ok \in BOOLEAN : ReportEdited(c, ok)

\* The event loop runs every callback that is due: the interval timer fires
\* again and again, and what an invocation awaits settles in the end (fetch
\* has its abort timer, the sockets their timeouts).
FairSpec ==
  /\ Spec
  /\ WF_vars(IntervalTick /\ UNCHANGED checked)
  /\ \A c \in Cycles : WF_vars(Settles(c) /\ UNCHANGED checked)

\* the bot with a configuration in which two websites have the same id
InitSharedId == InitWith(SharedIdConfigs)

SpecSharedId == InitSharedId /\ [][Next]_vars

\* everything of the bot
botVars == << WEBSITES, started, intervalArmed, ownerUser, statusMessage,
             lastWebsiteStates, pc, idx, cur, hist, tcp, udp, lines,
             reportStep >>

\* checkWebsite on its own: any of the URLs, fetch settling in any way
InitCheckWebsite == Init

CheckWebsiteCalled(url, o) ==
  /\ checked' = [url |-> url, fetch |-> o,
                 state |-> checkWebsite([id |-> "", url |-> url], o)]
  /\ UNCHANGED botVars

NextCheckWebsite ==
  \E url \in ProbedUrls, o \in FetchOutcomes : CheckWebsiteCalled(url, o)

SpecCheckWebsite == InitCheckWebsite /\ [][NextCheckWebsite]_vars

------------------------------------------------------------------------------
\* Properties.  hist[c] is the record of the latest website step of
\* invocation c: the website, result.state, the value read from
\* lastWebsiteStates, and how often each alert routine was called in the step.

Stepped(c) == hist[c].site # 0

\* the previous state the step had to use: the stored one, ok if none
PrevOfStep(c) == IF hist[c].stored = Undefined THEN "ok" ELSE hist[c].stored

\* invocation c has read the previous state of a key and not yet stored
Mid(c) == pc[c] \in {"alertFetch", "alertSend"}

\* C1: in every cycle and for every website, with prev the state stored for
\* its key (ok if never stored), the problem alert is invoked iff
\* result.state # ok and result.state # prev, the recovery alert iff
\* result.state = ok and prev # ok, and at most one alert is invoked.
C1_AlertIffTransition ==
  \A c \in Cycles : Stepped(c) =>
    /\ hist[c].problem =
         (IF hist[c].state # "ok" /\ hist[c].state # PrevOfStep(c) THEN 1 ELSE 0)
    /\ hist[c].recovery =
         (IF hist[c].state = "ok" /\ PrevOfStep(c) # "ok" THEN 1 ELSE 0)
    /\ hist[c].problem + hist[c].recovery <= 1

\* a change between two problem states has called the problem alert while
\* another invocation's step found nothing to alert
C1_Witness ==
  \E c, d \in Cycles :
    /\ hist[c].state = "down" /\ hist[c].stored = "tls_error"
    /\ hist[c].problem = 1 /\ hist[c].recovery = 0
    /\ hist[d].state = "down" /\ hist[d].stored = "down"
    /\ hist[d].problem = 0 /\ hist[d].recovery = 0

\* C2: cycles never overlap: at most one invocation of doMonitoringCycle is
\* in progress at any moment.
C2_CyclesNeverOverlap == Cardinality(InProgress) <= 1

\* C3: when a website goes from a state other than down to down and the next
\* cycle also yields down, one problem alert is sent in the first of the two
\* cycles and none in the second.  Stated on the step records of two
\* successive invocations c and c + 1 for the same website.
C3_SustainedDownAlertsOnce ==
  \A c \in Cycles : \A d \in Cycles :
    ( /\ d = c + 1
      /\ Stepped(c) /\ hist[d].site = hist[c].site
      /\ hist[c].state = "down" /\ hist[c].stored # "down"
      /\ hist[d].state = "down" )
    => (hist[c].problem = 1 /\ hist[d].problem = 0)

\* C4: a result ok with stored previous state down sends one recovery alert
\* and no problem alert; a result ok with stored previous state ok sends none.
C4_RecoveryOnce ==
  \A c \in Cycles :
    /\ (hist[c].state = "ok" /\ hist[c].stored = "down")
         => (hist[c].recovery = 1 /\ hist[c].problem = 0)
    /\ (hist[c].state = "ok" /\ hist[c].stored = "ok")
         => (hist[c].recovery = 0 /\ hist[c].problem = 0)

\* the recovery alert is running for a website that was stored as down
C4_Witness ==
  \E c \in Cycles :
    /\ Mid(c) /\ cur[c].alert = "recovery"
    /\ hist[c].state = "ok" /\ hist[c].stored = "down" /\ hist[c].recovery = 1

\* C5: for a key that was never stored the previous state is ok: a first
\* result tls_error sends one problem alert, a first result ok sends none.
C5_FirstSeenBaselineOk ==
  \A c \in Cycles :
    /\ (hist[c].stored = Undefined /\ hist[c].state = "tls_error")
         => (hist[c].problem = 1 /\ hist[c].recovery = 0)
    /\ (hist[c].stored = Undefined /\ hist[c].state = "ok")
         => (hist[c].problem = 0 /\ hist[c].recovery = 0)

\* the problem alert is running for a key that is not in the map
C5_Witness ==
  \E c \in Cycles :
    /\ Mid(c) /\ cur[c].alert = "problem"
    /\ KeyOf(idx[c]) \notin DOMAIN lastWebsiteStates
    /\ hist[c].stored = Undefined /\ hist[c].state = "tls_error"
    /\ hist[c].problem = 1

\* invocation d reads the previous state of key k in this step
ReadsKey(d, k) ==
  /\ pc[d] = "checkWebsite"
  /\ KeyOf(idx[d]) = k
  /\ (pc'[d] # "checkWebsite" \/ idx'[d] # idx[d])

\* invocation d stores the state of key k in this step
WritesKey(d, k) ==
  /\ pc[d] \in {"checkWebsite", "alertFetch", "alertSend"}
  /\ KeyOf(idx[d]) = k
  /\ (pc'[d] \notin {"checkWebsite", "alertFetch", "alertSend"}
        \/ idx'[d] # idx[d])

\* C6: the read of a key's previous state, the comparison and the store are
\* one atomic step: while an invocation is between its read and its store of
\* a key, no other invocation reads or writes that key's stored state.
C6_AtomicReadCompareStore ==
  [][ \A c \in Cycles : \A d \in Cycles \ {c} :
        (Mid(c) /\ Mid(c)')
          => ~(ReadsKey(d, KeyOf(idx[c])) \/ WritesKey(d, KeyOf(idx[c]))) ]_vars

\* the sockets of a TCP probe that are not destroyed
OpenSocks(p) == {s \in DOMAIN p.socks : ~p.socks[s].destroyed}

\* the TCP probe of port j of invocation c was started
TcpStarted(c, j) == Len(tcp[c][j].socks) > 0

\* C7: a first attempt that times out and a second that connects resolve
\* reachable (ok); a first and a second attempt that both time out resolve
\* with the timeout message "nach Retry"; a timeout outcome is never produced
\* without the retry having been made.
C7_RetryOutcome ==
  \A c \in Cycles, j \in Ports :
    LET p == tcp[c][j] IN
      /\ (Len(p.socks) = 2 /\ p.socks[1].ended = "timeout"
            /\ p.socks[2].ended = "connected")
           => p.resolved = << "ok" >>
      /\ (Len(p.socks) = 2 /\ p.socks[1].ended = "timeout"
            /\ p.socks[2].ended = "timeout")
           => p.resolved = << "timeout_after_retry" >>
      /\ \A r \in DOMAIN p.resolved :
           p.resolved[r] = "timeout_after_retry"
             => (Len(p.socks) = 2 /\ p.socks[1].ended = "timeout"
                   /\ p.socks[2].ended = "timeout")
      /\ \A s \in DOMAIN p.socks :
           (p.socks[s].ended = "timeout" /\ Len(p.socks) = s)
             => p.resolved = << "timeout_after_retry" >>

\* the retry connected and the awaiting invocation has gone on
C7_Witness ==
  \E c \in Cycles, j \in Ports :
    /\ Len(tcp[c][j].socks) = 2
    /\ tcp[c][j].socks[1].ended = "timeout"
    /\ tcp[c][j].socks[2].ended = "connected"
    /\ tcp[c][j].resolved = << "ok" >>
    /\ pc[c] # "checkTcp"

\* C8: a second attempt is started iff the first ended in a timeout; an
\* error on the first or the second attempt resolves the probe without a
\* further attempt; no probe makes more than two attempts.
C8_RetryOnlyOnTimeout ==
  \A c \in Cycles, j \in Ports :
    LET p == tcp[c][j] IN
      /\ Len(p.socks) <= 2
      /\ TcpStarted(c, j)
           => (Len(p.socks) = 2 <=> p.socks[1].ended = "timeout")
      /\ \A s \in DOMAIN p.socks :
           /\ p.socks[s].tryNumber = s
           /\ p.socks[s].ended \in {"error", "connected"}
                => (Len(p.socks) = s /\ Len(p.resolved) = 1)

\* the retry ended in a connection error, which resolved the probe
C8_Witness ==
  \E c \in Cycles, j \in Ports :
    /\ Len(tcp[c][j].socks) = 2
    /\ tcp[c][j].socks[1].ended = "timeout"
    /\ tcp[c][j].socks[2].ended = "error"
    /\ tcp[c][j].resolved = << "error" >>

\* C9: every attempt's socket is destroyed and its listeners removed before
\* the probe resolves or the retry starts: at most one socket of a probe is
\* open, none once it has resolved, and the promise resolves exactly once.
C9_SocketsReleased ==
  \A c \in Cycles, j \in Ports :
    LET p == tcp[c][j] IN
      /\ Cardinality(OpenSocks(p)) <= 1
      /\ \A s \in DOMAIN p.socks :
           /\ p.socks[s].destroyed => p.socks[s].listeners = {}
           /\ p.socks[s].ended # "none" => p.socks[s].destroyed
           /\ s < Len(p.socks) => p.socks[s].destroyed
      /\ Len(p.resolved) > 0 => OpenSocks(p) = {}
      /\ Len(p.resolved) <= 1
      /\ (TcpStarted(c, j) /\ ~(pc[c] = "checkTcp" /\ idx[c] = j))
           => Len(p.resolved) = 1

\* a probe has resolved after its retry, both sockets destroyed
C9_Witness ==
  \E c \in Cycles, j \in Ports :
    /\ Len(tcp[c][j].socks) = 2
    /\ \A s \in {1, 2} : tcp[c][j].socks[s].destroyed
    /\ Len(tcp[c][j].resolved) = 1
    /\ pc[c] = "checkUdp"

\* C10: checkUdpPort resolves exactly once and closes its socket exactly
\* once, in whatever order the error event, the send callback and the timer
\* come; an event after the first resolution changes nothing.
C10_UdpResolvesOnce ==
  \A c \in Cycles, j \in Ports :
    LET u == udp[c][j] IN
      /\ u.closes <= 1
      /\ Len(u.resolved) <= 1
      /\ u.closes = Len(u.resolved)
      /\ u.finished <=> u.closes = 1
      /\ (u.created /\ ~(pc[c] = "checkUdp" /\ idx[c] = j))
           => (u.closes = 1 /\ Len(u.resolved) = 1)
      /\ (u.finished /\ u.timer = "fired" /\ u.resolved # << "no_response" >>)
           => u.resolved = << "error" >>
      /\ (u.finished /\ u.sendCb = "failed" /\ u.resolved # << "send_error" >>)
           => u.resolved = << "error" >>

\* the error event resolved the probe; the send callback and then the timer
\* came afterwards
C10_Witness ==
  \E c \in Cycles, j \in Ports :
    /\ udp[c][j].resolved = << "error" >>
    /\ udp[c][j].sendCb = "sent"
    /\ udp[c][j].timer = "fired"
    /\ udp[c][j].closes = 1

\* C11: checkUdpPort resolves with the informational "sent, no response"
\* message when the send succeeded and no socket error came before the timer
\* fired, and with a failure message when the send callback reported an error
\* or the socket emitted an error first; the missing reply alone (the timer)
\* never yields a failure message.
C11_UdpOutcome ==
  \A c \in Cycles, j \in Ports :
    LET u == udp[c][j] IN
      /\ u.resolved = << "no_response" >>
           => (u.sendCb = "sent" /\ u.timer = "fired")
      /\ u.resolved = << "send_error" >>
           => (u.sendCb = "failed" /\ u.timer = "none")
      /\ u.sendCb = "failed"
           => /\ u.finished /\ u.timer = "none"
              /\ u.resolved \in {<< "send_error" >>, << "error" >>}
      /\ u.timer = "fired"
           => u.resolved \in {<< "no_response" >>, << "error" >>}
      /\ (u.sendCb = "sent" /\ u.timer = "armed" /\ u.finished)
           => u.resolved = << "error" >>
      /\ (u.sendCb = "sent" /\ u.timer = "armed" /\ ~u.finished)
           => u.resolved = << >>

\* the send succeeded, the timer fired without a socket error before it, and
\* the awaiting invocation went on with the informational outcome
C11_Witness ==
  \E c \in Cycles, j \in Ports :
    /\ udp[c][j].resolved = << "no_response" >>
    /\ udp[c][j].sendCb = "sent"
    /\ udp[c][j].timer = "fired"
    /\ ~(pc[c] = "checkUdp" /\ idx[c] = j)

\* the URL starts with http:// in any mix of upper and lower case
PlainHttp(url) ==
  /\ Len(url) >= 7
  /\ \A k \in 1..7 :
       SubSeq(url, k, k) \in {SubSeq("http://", k, k), SubSeq("HTTP://", k, k)}

\* C12: checkWebsite returns ok iff a response was received, the URL does not
\* start with http:// (in any case) and the status is in [200,400); a plain
\* http:// URL yields down for every status; a rejected fetch yields
\* tls_error (for the certificate error codes only) or down, never ok.
C12_WebsiteClassification ==
  checked # NoChecked =>
    LET o == checked.fetch IN
      /\ checked.state \in WebsiteStates
      /\ checked.state = "ok"
           <=> /\ o.kind = "response"
               /\ ~PlainHttp(checked.url)
               /\ o.status \in 200..399
      /\ (o.kind = "response" /\ PlainHttp(checked.url))
           => checked.state = "down"
      /\ o.kind = "response" => checked.state # "tls_error"
      /\ o.kind = "error" => checked.state \in {"tls_error", "down"}
      /\ checked.state = "tls_error"
           => o.code \in {"CERT_HAS_EXPIRED", "UNABLE_TO_VERIFY_LEAF_SIGNATURE",
                          "DEPTH_ZERO_SELF_SIGNED_CERT"}

\* status 200 over a plain HTTP URL in mixed case was classified down
C12_Witness ==
  /\ checked.fetch.kind = "response" /\ checked.fetch.status = 200
  /\ checked.url = "hTTp://b"
  /\ checked.state = "down"

\* the awaits of the report; in the last two a new status message is being
\* created (recipient lookup if needed, then send)
ReportPcs == {"reportEdit", "reportFetch", "reportSend"}
SendNewPcs == {"reportFetch", "reportSend"}

\* C13: edit-or-recreate.  An invocation that reaches the report creates a
\* new status message iff there is no handle or its edit of the handle
\* failed; a successful edit leaves the handle as it is and creates nothing;
\* a new message that was sent becomes the handle; when creating the new
\* message fails the handle keeps its value.
C13_EditOrRecreate ==
  [][ \A c \in Cycles :
        LET did == reportStep'.did IN
        /\ (pc[c] \notin ReportPcs /\ pc'[c] \in ReportPcs)
             => /\ pc'[c] \in SendNewPcs <=> statusMessage = Null
                /\ statusMessage' = statusMessage
        /\ (pc[c] = "reportEdit" /\ pc'[c] # "reportEdit")
             => /\ reportStep'.cycle = c
                /\ did \in {"edit_ok", "edit_failed"}
                /\ did = "edit_ok" <=> pc'[c] = "done"
                /\ did = "edit_failed" <=> pc'[c] \in SendNewPcs
                /\ statusMessage' = statusMessage
        /\ (pc[c] \in SendNewPcs /\ pc'[c] # pc[c])
             => /\ reportStep'.cycle = c
                /\ did = "fetch_ok"
                     => (pc'[c] = "reportSend" /\ statusMessage' = statusMessage)
                /\ did = "send_ok" => (pc'[c] = "done" /\ statusMessage' = c)
                /\ did \in {"fetch_failed", "send_failed"}
                     => (pc'[c] = "caught" /\ statusMessage' = statusMessage)
        /\ (statusMessage' = c /\ statusMessage # c)
             => (pc[c] = "reportSend" /\ did = "send_ok")
    ]_vars

\* the edit of the greeting failed and the replacement that was sent is the
\* handle now
C13_Witness ==
  /\ reportStep.did = "send_ok"
  /\ reportStep.before = 0
  /\ statusMessage = reportStep.cycle
  /\ pc[reportStep.cycle] = "done"

\* C14: an error inside a cycle is caught at the cycle's boundary: the
\* invocation returns, the interval timer is running from the return of the
\* first invocation on, however that one returned, and it stays running; an
\* invocation that returned through its catch block is followed by a further
\* invocation, which starts at the first website whatever the failed one did.
C14_ErrorsCaughtCycleGoesOn ==
  /\ [](pc[1] \in Returned => intervalArmed)
  /\ [][intervalArmed => intervalArmed']_vars
  /\ [][ \A c \in Cycles :
           (pc[c] = "idle" /\ pc'[c] # "idle")
             => (pc'[c] = "checkWebsite" /\ idx'[c] = 1) ]_vars
  /\ \A c \in 1..(MaxCycles - 1) :
       (pc[c] = "caught") ~> (started > c /\ pc[c + 1] # "idle")

\* the first invocation returned through its catch block and the interval
\* timer has started the second, which is checking its first website
C14_Witness ==
  /\ pc[1] = "caught"
  /\ intervalArmed
  /\ started = 2
  /\ pc[2] = "checkWebsite" /\ idx[2] = 1

\* the awaits inside the alert routines
AlertPcs == {"alertFetch", "alertSend"}

\* invocation c has gone on to the endpoint after website i
WentOnAfter(c, i) ==
  IF i < Len(WEBSITES)
    THEN pc[c] = "checkWebsite" /\ idx[c] = i + 1
    ELSE pc[c] \in {"checkTcp", "checkUdp"} \cup ReportPcs

\* the part of C15 about the cycle in which the alert failed: the step in
\* which an alert of invocation c fails stores the new state and takes c on
\* to the next endpoint; the alert is not called again and c has not
\* returned
C15_CycleContinues ==
  /\ [][ \A c \in Cycles :
           (~hist[c].failed /\ hist'[c].failed)
             => /\ pc[c] \in AlertPcs /\ pc'[c] \notin AlertPcs
                /\ lastWebsiteStates'[KeyOf(hist[c].site)] = hist[c].state
                /\ hist'[c].problem + hist'[c].recovery = 1 ]_vars
  /\ [](\A c \in Cycles : hist[c].failed => WentOnAfter(c, hist[c].site))

\* C15: when an alert fails the cycle continues (state stored, next endpoint
\* checked, no second call of the alert), and a later invocation that gets
\* the same state for the website calls no alert for it.
C15_FailedAlertNotRetried ==
  /\ C15_CycleContinues
  /\ [](\A c \in Cycles : \A d \in Cycles :
          ( /\ d > c
            /\ hist[c].failed
            /\ hist[d].site = hist[c].site
            /\ hist[d].state = hist[c].state )
          => hist[d].problem + hist[d].recovery = 0)

\* the step is one of invocation c
OwnStep(c) ==
  \/ pc'[c] # pc[c] \/ idx'[c] # idx[c]
  \/ tcp'[c] # tcp[c] \/ udp'[c] # udp[c]

\* the awaits of the ports section
PortPcs == {"checkTcp", "checkUdp"}

\* the lines that are the entry of a port
PortKinds == {"port", "unknownProtocol"}

\* the protocol of a port entry is tcp (also by default) or udp
KnownProtocol(cfg) ==
  cfg.protocol \in {"", "tcp", "TCP", "Tcp", "udp", "UDP", "Udp"}

\* what was pushed onto lines of invocation c in this step
Pushed(c) == SubSeq(lines'[c], Len(lines[c]) + 1, Len(lines'[c]))

\* C16: port checks never drive alerts: a step of an invocation that is in
\* the ports section calls no alert, leaves lastWebsiteStates as it is and
\* raises no error; when a probe has resolved, with whatever outcome, the
\* step pushes one line for that port, and one "unknown protocol" line for
\* each entry with an unknown protocol that follows it directly.
C16_PortsNeverAlert ==
  [][ \A c \in Cycles :
        (pc[c] \in PortPcs /\ OwnStep(c))
          => /\ lastWebsiteStates' = lastWebsiteStates
             /\ pc'[c] \notin AlertPcs \cup {"caught"}
             /\ hist'[c].problem + hist'[c].recovery = 0
             /\ cur'[c] = NoCur
             /\ SubSeq(lines'[c], 1, Len(lines[c])) = lines[c]
             /\ IF pc'[c] = pc[c] /\ idx'[c] = idx[c]
                  THEN lines'[c] = lines[c]
                  ELSE LET nxt == IF pc'[c] \in PortPcs THEN idx'[c]
                                  ELSE Len(PORTS) + 1
                           of(j) == {k \in DOMAIN Pushed(c) :
                                       /\ Pushed(c)[k].kind \in PortKinds
                                       /\ Pushed(c)[k].n = j}
                       IN /\ nxt > idx[c]
                          /\ Pushed(c)[1] = Line("port", idx[c])
                          /\ \A j \in Ports :
                               Cardinality(of(j)) =
                                 (IF j >= idx[c] /\ j < nxt THEN 1 ELSE 0)
                          /\ \A j \in Ports : (j > idx[c] /\ j < nxt)
                               => /\ ~KnownProtocol(PORTS[j])
                                  /\ \A k \in of(j) :
                                       Pushed(c)[k].kind = "unknownProtocol"
    ]_vars

\* the UDP probe of the second port ended in a socket error, the entry with
\* the unknown protocol got its line, and the invocation is at the report
\* with no alert called
C16_Witness ==
  \E c \in Cycles :
    /\ pc[c] \in ReportPcs
    /\ udp[c][2].resolved = << "error" >>
    /\ \E k \in DOMAIN lines[c] : lines[c][k] = Line("port", 2)
    /\ \E k \in DOMAIN lines[c] : lines[c][k] = Line("unknownProtocol", 3)
    /\ hist[c] = NoHist /\ cur[c] = NoCur

\* the entries of one kind in the report, in the order they appear
EntriesOf(L, kinds) == SelectSeq(L, LAMBDA x : x.kind \in kinds)

\* C17: the report of every cycle lists all website lines before all port
\* lines, each section in configuration order with exactly one line per
\* configured endpoint, and has one next-check countdown, whose number is
\* checkIntervalMs rounded to seconds.
C17_ReportLayout ==
  \A c \in Cycles : pc[c] \in ReportPcs =>
    LET L == lines[c]
        W == EntriesOf(L, {"website"})
        P == EntriesOf(L, PortKinds)
        C == EntriesOf(L, {"countdown"})
    IN /\ Len(W) = Len(WEBSITES)
       /\ \A k \in DOMAIN W : W[k].n = k
       /\ Len(P) = Len(PORTS)
       /\ \A k \in DOMAIN P : P[k].n = k
       /\ \A a \in DOMAIN L, b \in DOMAIN L :
            (L[a].kind = "website" /\ L[b].kind \in PortKinds) => a < b
       /\ Len(C) = 1
       /\ 1000 * C[1].n - 500 <= checkIntervalMs
       /\ checkIntervalMs < 1000 * C[1].n + 500

\* an invocation is about to edit the status message with a report of two
\* website lines, three port lines and the countdown
C17_Witness ==
  \E c \in Cycles :
    /\ pc[c] = "reportEdit"
    /\ Len(EntriesOf(lines[c], {"website"})) = 2
    /\ Len(EntriesOf(lines[c], PortKinds)) = 3
    /\ Len(EntriesOf(lines[c], {"countdown"})) = 1

\* C18: distinct configured websites have distinct keys, so that within one
\* invocation a key is read and written for one website only, and the
\* previous state used for a website is a result of that website (or none):
\* for every website step, no other website has the key of the step's
\* website, and the stored state that was read is one that checkWebsite can
\* return for this website.
C18_DistinctKeys ==
  \A c \in Cycles : Stepped(c) =>
    LET i == hist[c].site IN
      /\ \A j \in Sites(WEBSITES) \ {i} : KeyOf(j) # KeyOf(i)
      /\ hist[c].stored \in {Undefined} \cup ResultStates(WEBSITES[i])

\* how far an invocation is: 0 not started, i at website i (its check or its
\* alert), n + j at port j, then the report, then returned
Pos(p, i) ==
  LET n == Len(WEBSITES)
      m == Len(PORTS)
  IN CASE p = "idle" -> 0
       [] p \in {"checkWebsite"} \cup AlertPcs -> i
       [] p \in PortPcs -> n + i
       [] p \in ReportPcs -> n + m + 1
       [] p \in Returned -> n + m + 2

\* the probes of invocation c that have been started and have not resolved
ProbesInFlight(c) ==
  {j \in Ports : (TcpStarted(c, j) /\ tcp[c][j].resolved = << >>)
                  \/ (udp[c][j].created /\ ~udp[c][j].finished)}

\* C19: an invocation goes through the websites and then the ports in
\* configuration order, one endpoint after the other: it never goes back,
\* passes over an endpoint only if that is a port entry with an unknown
\* protocol (which has no probe), starts the probe of a port when it gets to
\* it, has no probe in flight but the one it awaits and none while an alert
\* is handled, and returns only from the report: whatever a probe yields,
\* the later endpoints are probed and the report is pushed.
C19_ProbesInOrder ==
  /\ [][ \A c \in Cycles :
           LET from == Pos(pc[c], idx[c])
               to   == Pos(pc'[c], idx'[c])
               n    == Len(WEBSITES)
               m    == Len(PORTS)
           IN /\ to >= from
              /\ from = 0 => to \in {0, 1}
              /\ \A q \in (from + 1)..(to - 1) :
                   /\ q > n /\ q <= n + m
                   /\ ~KnownProtocol(PORTS[q - n])
              /\ to = n + m + 2 => from >= n + m + 1
              /\ \A j \in Ports :
                   (tcp[c][j] = NoTcp /\ udp[c][j] = NoUdp
                      /\ (tcp'[c][j] # NoTcp \/ udp'[c][j] # NoUdp))
                     => (to = n + j /\ from < to) ]_vars
  /\ [](\A c \in Cycles :
          /\ pc[c] \in PortPcs => ProbesInFlight(c) = {idx[c]}
          /\ pc[c] \notin PortPcs => ProbesInFlight(c) = {}
          /\ pc[c] \in {"checkWebsite"} \cup AlertPcs
               => \A j \in Ports : ~TcpStarted(c, j) /\ ~udp[c][j].created)

\* the first invocation got tls_error and down for the websites and a send
\* error for the UDP port, and is at the report
C19_Witness ==
  /\ started = 1
  /\ pc[1] \in ReportPcs
  /\ StoredState(KeyOf(1)) = "tls_error"
  /\ StoredState(KeyOf(2)) = "down"
  /\ udp[1][2].resolved = << "send_error" >>
  /\ Len(EntriesOf(lines[1], PortKinds)) = Len(PORTS)

\* C20: a website step whose result is one of down and tls_error while the
\* stored state is the other calls the problem alert once and the recovery
\* alert not at all, and the text that is sent begins with the title of the
\* new state: the certificate title for tls_error, the unreachable title for
\* down.
C20_ProblemToProblem ==
  \A c \in Cycles :
    ( /\ Stepped(c)
      /\ {hist[c].stored, hist[c].state} = {"down", "tls_error"} )
    => /\ hist[c].problem = 1
       /\ hist[c].recovery = 0
       /\ pc[c] \in AlertPcs => cur[c].alert = "problem"
       /\ pc[c] = "alertSend"
            => cur[c].title = (IF hist[c].state = "tls_error"
                                 THEN "SSL / Zertifikatsproblem"
                                 ELSE "Seite nicht erreichbar / Fehler")

\* the stored state was down, the result is tls_error, and the alert with
\* the certificate title is being sent
C20_Witness ==
  \E c \in Cycles :
    /\ pc[c] = "alertSend"
    /\ hist[c].stored = "down" /\ hist[c].state = "tls_error"
    /\ hist[c].problem = 1 /\ hist[c].recovery = 0
    /\ cur[c].alert = "problem"
    /\ cur[c].title = "SSL / Zertifikatsproblem"

====
